---- MODULE Spec2Model ----
(***************************************************************************)
(* A model of ZEO's ClientCache (src/trunk/src/ZEO/ClientCache.py): the    *)
(* two-file client cache, its record format, its index scanner and its     *)
(* controller.  Files are sequences of bytes (0..255) laid out exactly as  *)
(* the code writes them; strings are sequences of bytes.                   *)
(***************************************************************************)
EXTENDS Integers, Sequences, FiniteSets, TLC

(***************************************************************************)
(* Bounds of the model.                                                    *)
(***************************************************************************)
\* the `size' argument of the constructor; the limit is size / 2
CacheSize == 140
\* the largest append position a store or update is explored at
MaxPos == 82
\* the bytes of records that store and update write in one run
MaxBytes == 92

(***************************************************************************)
(* Bytes and strings.                                                      *)
(***************************************************************************)
\* Python's None, as a result or an argument: the empty tuple
None == <<>>

\* an uncaught exception, as a result
Raised == <<-1>>

Min(a, b) == IF a < b THEN a ELSE b

abs(p) == IF p < 0 THEN -p ELSE p

\* the status bytes 'v', 'n', 'i'
ChV == 118
ChN == 110
ChI == 105

magic == <<90, 69, 67, 48>>

ZeroSerial == <<0, 0, 0, 0, 0, 0, 0, 0>>

\* `count' copies of byte b
Fill(b, count) == [k \in 1..count |-> b]

\* struct.pack(">I", x)
PackI(x) == << (x \div 16777216) % 256, (x \div 65536) % 256, (x \div 256) % 256, x % 256 >>

\* struct.pack(">H", x)
PackH(x) == << (x \div 256) % 256, x % 256 >>

\* struct.unpack(">i", b) for a 4-byte string b: a signed 32-bit integer
UnpackI(b) ==
    (((IF b[1] >= 128 THEN b[1] - 256 ELSE b[1]) * 256 + b[2]) * 256 + b[3]) * 256 + b[4]

\* struct.unpack(">H", b)
UnpackH(b) == b[1] * 256 + b[2]

\* s[a:b] of Python, for 0 <= a
Slice(s, a, b) == SubSeq(s, a + 1, Min(b, Len(s)))

\* Python's s > t on byte strings (lexicographic)
RECURSIVE StrGreater(_, _)
StrGreater(s, t) ==
    IF s = <<>> THEN FALSE
    ELSE IF t = <<>> THEN TRUE
    ELSE IF Head(s) # Head(t) THEN Head(s) > Head(t)
    ELSE StrGreater(Tail(s), Tail(t))

(***************************************************************************)
(* File primitives: a file is its content, a position is a byte offset.    *)
(***************************************************************************)
\* f.seek(at); f.read(n): at most n bytes, fewer at the end of the file
FRead(file, at, n) ==
    IF n < 0 THEN Slice(file, at, Len(file)) ELSE Slice(file, at, at + n)

\* f.seek(at); f.write(bytes): a write past the end zero-fills the gap
FWrite(file, at, bytes) ==
    LET padded == IF at > Len(file) THEN file \o Fill(0, at - Len(file)) ELSE file
    IN  SubSeq(padded, 1, at) \o bytes \o SubSeq(padded, at + Len(bytes) + 1, Len(padded))

(***************************************************************************)
(* The record codec of _store.                                             *)
(***************************************************************************)
\* the non-version pair _store writes: an empty serial forces ('', zeros)
StoreP(p, s) == IF s = <<>> THEN <<>> ELSE p
StoreS(s) == IF s = <<>> THEN ZeroSerial ELSE s

\* tlen as _store computes it
StoreTlen(p, s, version, pv) ==
    IF version # <<>>
    THEN 31 + Len(StoreP(p, s)) + Len(version) + 12 + Len(pv)
    ELSE 31 + Len(StoreP(p, s))

\* the bytes _store writes: "".join(l)
EncodeRecord(oid, p, s, version, pv, sv) ==
    LET stlen == PackI(StoreTlen(p, s, version, pv))
        vlen  == IF version # <<>> THEN Len(version) ELSE 0
        head  == oid \o <<ChV>> \o stlen \o PackH(vlen) \o PackI(Len(StoreP(p, s)))
                     \o StoreS(s)
        vpart == IF version # <<>>
                 THEN version \o PackI(Len(pv)) \o pv \o sv
                 ELSE <<>>
    IN  head \o StoreP(p, s) \o vpart \o stlen

(***************************************************************************)
(* Decoding a 27-byte header h (a Python string, here 1-based).            *)
(***************************************************************************)
\* faulty decoders: the version length read as 0, and the serial read one
\* byte early
HVlenNone(h) == 0
HSerialEarly(h) == Slice(h, 18, 26)

HOid(h)    == Slice(h, 0, 8)
HStatus(h) == h[9]
HTlen(h)   == UnpackI(Slice(h, 9, 13))
HVlen(h)   == UnpackH(Slice(h, 13, 15))
HDlen(h)   == UnpackI(Slice(h, 15, 19))
HSerial(h) == Slice(h, 19, 27)

\* tlen <= 0 or vlen < 0 or dlen < 0 or vlen+dlen > tlen
HeaderBad(h) ==
    HTlen(h) <= 0 \/ HVlen(h) < 0 \/ HDlen(h) < 0 \/ HVlen(h) + HDlen(h) > HTlen(h)

\* len(h)==27 and h[8] in 'nv' and h[:8]==oid
HeaderMatches(h, oid) ==
    Len(h) = 27 /\ HStatus(h) \in {ChN, ChV} /\ HOid(h) = oid

(***************************************************************************)
(* load, modifiedInVersion and invalidate on an index idx and the two file *)
(* contents dsk (dsk[0], dsk[1]); an index value p designates file         *)
(* dsk[1] when p < 0 and dsk[0] otherwise (self._f[p < 0]).                *)
(***************************************************************************)
SegOf(p) == IF p < 0 THEN 1 ELSE 0

\* h = read(27) at the indexed offset of oid
HeaderAt(idx, dsk, oid) == FRead(dsk[SegOf(idx[oid])], abs(idx[oid]), 27)

\* the branch of load and modifiedInVersion that deletes the index entry
EntryBad(idx, dsk, oid) ==
    LET h == HeaderAt(idx, dsk, oid)
    IN  ~HeaderMatches(h, oid) \/ HeaderBad(h)

\* what load(oid, version) returns: None or <<data, serial>>
LoadRet(idx, dsk, oid, version) ==
    IF oid \notin DOMAIN idx THEN None
    ELSE
    LET file == dsk[SegOf(idx[oid])]
        ap   == abs(idx[oid])
        h    == FRead(file, ap, 27)
        vlen == HVlen(h)
        dlen == HDlen(h)
        v    == FRead(file, ap + 27 + dlen, vlen)
        \* the position after seek(-dlen-vlen, 1)
        back == ap + 27 + dlen + Len(v) - dlen - vlen
        vdl  == FRead(file, ap + 27 + dlen + Len(v), 4)
        vd   == FRead(file, ap + 27 + dlen + Len(v) + 4, UnpackI(vdl))
    IN  IF EntryBad(idx, dsk, oid) THEN None
        ELSE IF HStatus(h) = ChN /\ version # <<>> THEN None
        ELSE IF HStatus(h) = ChN /\ dlen = 0 THEN None
        ELSE IF vlen = 0 \/ version = <<>>
             THEN IF dlen # 0 THEN << FRead(file, ap + 27, dlen), HSerial(h) >> ELSE None
        ELSE IF version # v
             THEN IF dlen # 0
                  THEN IF back < 0 THEN Raised
                       ELSE << FRead(file, back, dlen), HSerial(h) >>
                  ELSE None
        ELSE IF Len(vdl) # 4 THEN Raised
        ELSE << vd, FRead(file, ap + 27 + dlen + Len(v) + 4 + Len(vd), 8) >>

\* the index load(oid, version) leaves
LoadIndex(idx, dsk, oid, version) ==
    IF oid \notin DOMAIN idx THEN idx
    ELSE
    LET h == HeaderAt(idx, dsk, oid)
    IN  IF EntryBad(idx, dsk, oid) \/ (HStatus(h) = ChN /\ version = <<>> /\ HDlen(h) = 0)
        THEN [o \in DOMAIN idx \ {oid} |-> idx[o]]
        ELSE idx

\* what modifiedInVersion(oid) returns: None, or <<name>> for the version name
\* ('' for a record without a version)
ModifiedRet(idx, dsk, oid) ==
    IF oid \notin DOMAIN idx THEN None
    ELSE
    LET file == dsk[SegOf(idx[oid])]
        ap   == abs(idx[oid])
        h    == FRead(file, ap, 27)
    IN  IF EntryBad(idx, dsk, oid) THEN None
        ELSE IF HStatus(h) = ChN THEN None
        ELSE IF HVlen(h) = 0 THEN << <<>> >>
        ELSE << FRead(file, ap + 27 + HDlen(h), HVlen(h)) >>

\* the index modifiedInVersion(oid) leaves
ModifiedIndex(idx, dsk, oid) ==
    IF oid \in DOMAIN idx /\ EntryBad(idx, dsk, oid)
    THEN [o \in DOMAIN idx \ {oid} |-> idx[o]]
    ELSE idx

\* invalidate(oid, version) goes past its two early returns
InvalidateHits(idx, dsk, oid) ==
    oid \in DOMAIN idx /\ FRead(dsk[SegOf(idx[oid])], abs(idx[oid]), 8) = oid

\* where invalidate writes the status: f.seek(ap); f.read(8) leaves the file
\* at ap + 8, and f.seek(8, 1) moves 8 bytes on from there
InvalidateAt(ap) == ap + 8 + 8

\* the files invalidate(oid, version) leaves
InvalidateDisk(idx, dsk, oid, version) ==
    IF InvalidateHits(idx, dsk, oid)
    THEN [dsk EXCEPT ![SegOf(idx[oid])] =
              FWrite(@, InvalidateAt(abs(idx[oid])),
                     IF version # <<>> THEN <<ChN>> ELSE <<ChI>>)]
    ELSE dsk

\* the index invalidate(oid, version) leaves
InvalidateIndex(idx, dsk, oid, version) ==
    IF InvalidateHits(idx, dsk, oid) /\ version = <<>>
    THEN [o \in DOMAIN idx \ {oid} |-> idx[o]]
    ELSE idx

(***************************************************************************)
(* _store, update and checkSize.                                           *)
(***************************************************************************)
\* self._limit = size / 2
limit == CacheSize \div 2

\* a faulty Signed: the sign of the other file
SignedOther(cur, at) == IF cur = 1 THEN at ELSE -at

\* the index value _store records for a record at position at of segment cur
Signed(cur, at) == IF cur = 1 THEN -at ELSE at

\* the file _store leaves: f.seek(self._pos); f.write("".join(l))
StoreDisk(dsk, cur, at, oid, p, s, version, pv, sv) ==
    [dsk EXCEPT ![cur] = FWrite(@, at, EncodeRecord(oid, p, s, version, pv, sv))]

\* the index _store leaves
StoreIndex(idx, cur, at, oid) ==
    [o \in DOMAIN idx \cup {oid} |-> IF o = oid THEN Signed(cur, at) ELSE idx[o]]

\* a faulty UpdateKeeps: the non-version data is never kept
UpdateKeepsNever(idx, dsk, oid) == FALSE

\* update(oid, serial, version, data) with a version finds non-version data to
\* keep: the entry exists, its header matches, and none of the early returns
\* to _store(oid, '', '', ...) is taken
UpdateKeeps(idx, dsk, oid) ==
    /\ oid \in DOMAIN idx
    /\ LET h == HeaderAt(idx, dsk, oid)
       IN  /\ HeaderMatches(h, oid)
           /\ ~(HTlen(h) <= 0 \/ HVlen(h) < 0 \/ HDlen(h) <= 0
                \/ HVlen(h) + HDlen(h) > HTlen(h))
           /\ HDlen(h) # 0

\* the arguments <<p, s, version, pv, sv>> update passes to _store
UpdateArgs(idx, dsk, oid, serial, version, data) ==
    IF version = <<>> THEN << data, serial, <<>>, None, None >>
    ELSE IF UpdateKeeps(idx, dsk, oid)
    THEN LET h == HeaderAt(idx, dsk, oid)
         IN  << FRead(dsk[SegOf(idx[oid])], abs(idx[oid]) + 27, HDlen(h)),
                HSerial(h), version, data, serial >>
    ELSE << <<>>, <<>>, version, data, serial >>

\* a faulty CheckSizeFlips: the size of the record to come is left out
CheckSizeFlipsLate(at, size) == at > limit

\* checkSize(size) flips the cache
CheckSizeFlips(at, size) == at + size > limit

(***************************************************************************)
(* read_index: the scanner.  A serial map gives each oid the pair          *)
(* <<serial, vs>>, vs being None for a record without a version.           *)
(***************************************************************************)
\* a scanner that keeps the entry of an oid it finds invalidated
WithoutKept(m, oid) == m

Without(m, oid) == [o \in DOMAIN m \ {oid} |-> m[o]]

With(m, oid, val) == [o \in DOMAIN m \cup {oid} |-> IF o = oid THEN val ELSE m[o]]

\* the scanner's first test of the record at pos: the loop breaks
ScanHeaderStops(h) ==
    ~(Len(h) = 27 /\ HStatus(h) \in {ChV, ChN, ChI}) \/ HeaderBad(h)

\* the record at pos carries a version section the scanner walks through
ScanHasVersion(h) == HStatus(h) = ChV /\ HVlen(h) # 0

\* the position of vdlen, and vdlen as read
ScanVdlenAt(h, pos) == pos + 27 + HDlen(h) + HVlen(h)
ScanVdlen(file, h, pos) == FRead(file, ScanVdlenAt(h, pos), 4)

\* the position after seek(vdlen, 1)
ScanVserialAt(file, h, pos) == ScanVdlenAt(h, pos) + 4 + UnpackI(ScanVdlen(file, h, pos))

\* vs = read(8)
ScanVserial(file, h, pos) == FRead(file, ScanVserialAt(file, h, pos), 8)

\* a scanner that compares the trailing 4 bytes with the first half of the oid
ScanVersionStopsOidHalf(file, h, pos) ==
    \/ Len(ScanVdlen(file, h, pos)) # 4
    \/ HVlen(h) + HDlen(h) + 42 + UnpackI(ScanVdlen(file, h, pos)) > HTlen(h)
    \/ /\ ScanVserialAt(file, h, pos) >= 0
       /\ FRead(file, ScanVserialAt(file, h, pos) + Len(ScanVserial(file, h, pos)), 4)
              # Slice(h, 0, 4)

\* the tests of the version section: the loop breaks
ScanVersionStops(file, h, pos) ==
    \/ Len(ScanVdlen(file, h, pos)) # 4
    \/ HVlen(h) + HDlen(h) + 42 + UnpackI(ScanVdlen(file, h, pos)) > HTlen(h)
    \/ /\ ScanVserialAt(file, h, pos) >= 0
       /\ FRead(file, ScanVserialAt(file, h, pos) + Len(ScanVserial(file, h, pos)), 4)
              # Slice(h, 9, 13)

\* seek(vdlen, 1) to a negative position raises IOError
ScanVersionRaises(file, h, pos) ==
    /\ Len(ScanVdlen(file, h, pos)) = 4
    /\ HVlen(h) + HDlen(h) + 42 + UnpackI(ScanVdlen(file, h, pos)) <= HTlen(h)
    /\ ScanVserialAt(file, h, pos) < 0

\* the loop of read_index from position pos on; the result is the index, the
\* serial map, the position the loop ends at, and whether it raised
RECURSIVE ScanFrom(_, _, _, _, _)
ScanFrom(idx, ser, file, cur, pos) ==
    LET h == FRead(file, pos, 27)
    IN  IF ScanHeaderStops(h)
        THEN [index |-> idx, serial |-> ser, pos |-> pos, raised |-> FALSE]
        ELSE IF ScanHasVersion(h) /\ ScanVersionRaises(file, h, pos)
        THEN [index |-> idx, serial |-> ser, pos |-> pos, raised |-> TRUE]
        ELSE IF ScanHasVersion(h) /\ ScanVersionStops(file, h, pos)
        THEN [index |-> idx, serial |-> ser, pos |-> pos, raised |-> FALSE]
        ELSE
        LET oid == HOid(h)
            vs  == IF ScanHasVersion(h) THEN ScanVserial(file, h, pos) ELSE None
        IN  IF HStatus(h) \in {ChV, ChN}
            THEN ScanFrom(With(idx, oid, Signed(cur, pos)),
                          With(ser, oid, << HSerial(h), vs >>),
                          file, cur, pos + HTlen(h))
            ELSE IF oid \in DOMAIN ser
            THEN ScanFrom(Without(idx, oid), Without(ser, oid), file, cur, pos + HTlen(h))
            ELSE ScanFrom(idx, ser, file, cur, pos + HTlen(h))

\* read_index(index, serial, f, current) up to its truncate
read_index(idx, ser, file, cur) == ScanFrom(idx, ser, file, cur, 4)

\* f.seek(pos); f.truncate(): the files it can leave.  Truncating to a size
\* beyond the end of the file is platform-dependent: the file stays as it is,
\* or grows to that size, zero-filled or with other content
Grows == { "same", "zeros", "ones" }

TruncatedAs(file, pos, how) ==
    IF pos <= Len(file) THEN SubSeq(file, 1, pos)
    ELSE IF how = "same" THEN file
    ELSE file \o Fill(IF how = "zeros" THEN 0 ELSE 255, pos - Len(file))

Truncated(file, pos) == { TruncatedAs(file, pos, how) : how \in Grows }

EmptyMap == [o \in {} |-> 0]

(***************************************************************************)
(* The constructor of a persistent cache, on the files the disk holds.     *)
(* A file that does not exist is the empty content: the constructor        *)
(* treats both alike (no magic, so no handle is kept).                     *)
(***************************************************************************)
\* s[i]: the eight bytes at offset 22 of a file with the magic and more than
\* 30 bytes, else zeros
PeekSerial(file) ==
    IF FRead(file, 0, 4) = magic /\ Len(file) > 30 THEN FRead(file, 22, 8) ELSE ZeroSerial

\* f[i] after the loop over the two files: a handle or None
PeekKeeps(file) == PeekSerial(file) # ZeroSerial

\* current
BootCurrent(dsk) == IF StrGreater(PeekSerial(dsk[1]), PeekSerial(dsk[0])) THEN 1 ELSE 0

\* the serials tie: the else branch of the comparison
BootTie(dsk) ==
    /\ ~StrGreater(PeekSerial(dsk[1]), PeekSerial(dsk[0]))
    /\ ~StrGreater(PeekSerial(dsk[0]), PeekSerial(dsk[1]))

\* self._f after the constructor: which of the two files has a handle
BootHandles(dsk) ==
    [i \in {0, 1} |->
        IF BootTie(dsk) THEN i = 0 ELSE PeekKeeps(dsk[i])]

\* the files after the constructor: a tie without file 0 creates it
BootDisk(dsk) ==
    IF BootTie(dsk) /\ ~PeekKeeps(dsk[0]) THEN [dsk EXCEPT ![0] = magic] ELSE dsk

(***************************************************************************)
(* The inputs explored.                                                    *)
(***************************************************************************)
O1 == <<0, 0, 0, 0, 0, 0, 0, 1>>
O2 == <<0, 0, 0, 0, 0, 0, 0, 2>>
OIDs == {O1, O2}

S1 == <<0, 0, 0, 0, 0, 0, 1, 0>>
S2 == <<0, 0, 0, 0, 0, 0, 2, 0>>
Serials == {S1, S2}

\* non-version data: '' and 'a'
D1 == <<97>>
Datas == {<<>>, D1}

\* version names 'V' and 'W'; only 'V' is ever stored
V1 == <<86>>
V2 == <<87>>
\* version data 'A' and the version serial
PV1 == <<65>>
SV1 == <<0, 0, 0, 0, 0, 0, 3, 0>>

\* the sizes passed to checkSize: record lengths, and one that always flips
Sizes == {31, 32, 45, 46, limit}

(***************************************************************************)
(* The state of one cache and of the files it works on.                    *)
(***************************************************************************)
VARIABLES
    client,     \* the cache is persistent (the constructor's client argument)
    disk,       \* disk[i]: the content of cache file i
    handle,     \* self._f[i]: "none" (None), "open" or "closed"
    index,      \* self._index
    pos,        \* self._pos
    current,    \* self._current
    phase,      \* "new" (constructed), "open" (open() has run), "closed"
    rotated,    \* history: a checkSize has flipped the cache since open()
    written,    \* history: the bytes of the records written so far
    snap,       \* history: the index and the files as close() found them
    scan,       \* the scanner run on its own: its file and its results
    lock,       \* the mutex: 0 when free, else the thread holding it
    pc,         \* pc[t]: the call thread t is in, "idle" when in none
    last        \* history: for each oid, the arguments of the last _store of
                \* it, until an invalidate of it with an empty version

cache == << client, disk, handle, index, pos, current, phase, rotated, written, snap >>

aux == << scan, lock, pc, last >>

vars == << cache, aux >>

Threads == {1, 2}

NoScan ==
    [file |-> <<>>, from |-> <<>>, cur |-> 0, grow |-> "same", index |-> EmptyMap,
     serial |-> EmptyMap, pos |-> 0, runs |-> 0, raised |-> FALSE]

NoSnap == [index |-> EmptyMap, disk |-> [i \in {0, 1} |-> <<>>]]

\* a persistent cache constructed where no cache file exists: file 0 holds
\* the magic
InitCache ==
    /\ client = TRUE
    /\ disk = [i \in {0, 1} |-> IF i = 0 THEN magic ELSE <<>>]
    /\ handle = [i \in {0, 1} |-> IF i = 0 THEN "open" ELSE "none"]
    /\ index = EmptyMap
    /\ pos = 0
    /\ current = 0
    /\ phase = "new"
    /\ rotated = FALSE
    /\ written = 0
    /\ snap = NoSnap

InitAux ==
    /\ scan = NoScan
    /\ lock = 0
    /\ pc = [t \in Threads |-> "idle"]
    /\ last = EmptyMap

Init == InitCache /\ InitAux

\* open(): the index is emptied, the other file is scanned if there is one,
\* then the current one.  A file that has been closed raises ValueError at the
\* scanner's first seek, and open() ends there.
open ==
    LET alt  == 1 - current
        r0   == IF handle[alt] # "none"
                THEN read_index(EmptyMap, EmptyMap, disk[alt], alt)
                ELSE [index |-> EmptyMap, serial |-> EmptyMap, pos |-> 0,
                      raised |-> FALSE]
        r1   == read_index(r0.index, r0.serial, disk[current], current)
    IN  /\ IF handle[alt] = "closed"
           THEN /\ index' = EmptyMap
                /\ UNCHANGED << disk, pos, phase, rotated, snap >>
           ELSE IF handle[current] = "closed"
           THEN /\ ~r0.raised
                /\ \E fa \in (IF handle[alt] # "none" THEN Truncated(disk[alt], r0.pos)
                              ELSE {disk[alt]}) :
                       disk' = [disk EXCEPT ![alt] = fa]
                /\ index' = r0.index
                /\ UNCHANGED << pos, phase, rotated, snap >>
           ELSE /\ ~r0.raised /\ ~r1.raised
                /\ \E fa \in (IF handle[alt] # "none" THEN Truncated(disk[alt], r0.pos)
                              ELSE {disk[alt]}),
                      fc \in Truncated(disk[current], r1.pos) :
                       disk' = [i \in {0, 1} |-> IF i = current THEN fc ELSE fa]
                /\ index' = r1.index
                /\ pos' = r1.pos
                /\ phase' = "open"
                /\ rotated' = FALSE
                /\ snap' = NoSnap
        /\ UNCHANGED << client, handle, current, written >>

\* the serial map open() returns (serial.items())
OpenSerials ==
    LET alt == 1 - current
        r0  == IF handle[alt] # "none"
               THEN read_index(EmptyMap, EmptyMap, disk[alt], alt)
               ELSE [index |-> EmptyMap, serial |-> EmptyMap, pos |-> 0, raised |-> FALSE]
    IN  read_index(r0.index, r0.serial, disk[current], current).serial

\* the index entry of oid points into a file that has been closed: the
\* seek there raises ValueError
EntryClosed(idx, hdl, oid) == oid \in DOMAIN idx /\ hdl[SegOf(idx[oid])] = "closed"

\* the bytes written so far and the append position leave room for a record
\* of tlen bytes
Room(tlen) == written + tlen <= MaxBytes /\ pos + tlen <= MaxPos

\* store(oid, p, s, version, pv, sv): _store under the lock; on a closed
\* current file its first seek raises ValueError
store(oid, p, s, version, pv, sv) ==
    /\ Room(StoreTlen(p, s, version, pv))
    /\ IF handle[current] = "closed"
       THEN UNCHANGED << disk, index, pos, written >>
       ELSE /\ disk' = StoreDisk(disk, current, pos, oid, p, s, version, pv, sv)
            /\ index' = StoreIndex(index, current, pos, oid)
            /\ pos' = pos + StoreTlen(p, s, version, pv)
            /\ written' = written + StoreTlen(p, s, version, pv)
    /\ UNCHANGED << client, handle, current, phase, rotated, snap >>

\* update(oid, serial, version, data)
update(oid, serial, version, data) ==
    LET a == UpdateArgs(index, disk, oid, serial, version, data)
    IN  IF version # <<>> /\ EntryClosed(index, handle, oid)
        THEN Room(StoreTlen(a[1], a[2], a[3], a[4])) /\ UNCHANGED cache
        ELSE store(oid, a[1], a[2], a[3], a[4], a[5])

\* invalidate(oid, version)
invalidate(oid, version) ==
    /\ IF EntryClosed(index, handle, oid)
       THEN UNCHANGED << disk, index >>
       ELSE /\ disk' = InvalidateDisk(index, disk, oid, version)
            /\ index' = InvalidateIndex(index, disk, oid, version)
    /\ UNCHANGED << client, handle, pos, current, phase, rotated, written, snap >>

\* load(oid, version)
load(oid, version) ==
    /\ index' = IF EntryClosed(index, handle, oid) THEN index
                ELSE LoadIndex(index, disk, oid, version)
    /\ UNCHANGED << client, disk, handle, pos, current, phase, rotated, written, snap >>

\* modifiedInVersion(oid)
modifiedInVersion(oid) ==
    /\ index' = IF EntryClosed(index, handle, oid) THEN index
                ELSE ModifiedIndex(index, disk, oid)
    /\ UNCHANGED << client, disk, handle, pos, current, phase, rotated, written, snap >>

\* after checkSize(size): past the limit, the other file is current, holds the
\* magic only and is written from position 4 on
\* a faulty CheckedCurrent: the other file whatever the size
CheckedCurrentOther(size) == 1 - current
CheckedCurrent(size) == IF CheckSizeFlips(pos, size) THEN 1 - current ELSE current
CheckedPos(size) == IF CheckSizeFlips(pos, size) THEN 4 ELSE pos
\* a faulty CheckedDisk: the file flipped to keeps its content
CheckedDiskKept(size) == disk
CheckedDisk(size) ==
    IF CheckSizeFlips(pos, size) THEN [disk EXCEPT ![1 - current] = magic] ELSE disk
CheckedHandle(size) ==
    IF CheckSizeFlips(pos, size) THEN [handle EXCEPT ![1 - current] = "open"] ELSE handle

\* checkSize(size)
checkSize(size) ==
    /\ current' = CheckedCurrent(size)
    /\ handle' = CheckedHandle(size)
    /\ disk' = CheckedDisk(size)
    /\ pos' = CheckedPos(size)
    /\ rotated' = (rotated \/ CheckSizeFlips(pos, size))
    /\ UNCHANGED << client, index, phase, written, snap >>

\* f.close() for every f of files that is not None
Closed(hdl, files) ==
    [i \in {0, 1} |-> IF i \in files /\ hdl[i] # "none" THEN "closed" ELSE hdl[i]]

\* close()
close ==
    /\ handle' = Closed(handle, {0, 1})
    /\ phase' = "closed"
    /\ snap' = IF phase = "open" THEN [index |-> index, disk |-> disk] ELSE snap
    /\ UNCHANGED << client, disk, index, pos, current, rotated, written >>

\* ClientCache(..., client=...) again on the files a closed persistent cache left
construct ==
    /\ client
    /\ disk' = BootDisk(disk)
    /\ handle' = [i \in {0, 1} |-> IF BootHandles(disk)[i] THEN "open" ELSE "none"]
    /\ current' = BootCurrent(disk)
    /\ index' = EmptyMap
    /\ pos' = 0
    /\ phase' = "new"
    /\ rotated' = FALSE
    /\ UNCHANGED << client, written, snap >>

(***************************************************************************)
(* One caller: every call runs from start to end before the next.          *)
(***************************************************************************)
\* The caller calls open() on a cache that is not closed, the other calls
\* between open() and close(), and the constructor after close().
IsOpen == phase = "open"

Open == phase \in {"new", "open"} /\ open /\ UNCHANGED aux

Store(oid, p, s, version, pv, sv) ==
    IsOpen /\ store(oid, p, s, version, pv, sv) /\ UNCHANGED aux

Update(oid, serial, version, data) ==
    IsOpen /\ update(oid, serial, version, data) /\ UNCHANGED aux

Invalidate(oid, version) == IsOpen /\ invalidate(oid, version) /\ UNCHANGED aux

Load(oid, version) == IsOpen /\ load(oid, version) /\ UNCHANGED aux

ModifiedInVersion(oid) == IsOpen /\ modifiedInVersion(oid) /\ UNCHANGED aux

CheckSize(size) == IsOpen /\ checkSize(size) /\ UNCHANGED aux

Close == phase \in {"new", "open"} /\ close /\ UNCHANGED aux

Construct == phase = "closed" /\ construct /\ UNCHANGED aux

Next ==
    \/ Open
    \/ \E p \in Datas, s \in Serials : Store(O1, p, s, <<>>, None, None)
    \/ \E p \in Datas : Store(O2, p, S2, <<>>, None, None)
    \/ \E p \in Datas : Store(O1, p, S1, V1, PV1, SV1)
    \/ \E oid \in OIDs, version \in {<<>>, V1} : Update(oid, S2, version, D1)
    \/ \E oid \in OIDs, version \in {<<>>, V1} : Invalidate(oid, version)
    \/ \E oid \in OIDs, version \in {<<>>, V1, V2} : Load(oid, version)
    \/ \E oid \in OIDs : ModifiedInVersion(oid)
    \/ \E size \in Sizes : CheckSize(size)
    \/ Close
    \/ Construct

Spec == Init /\ [][Next]_vars

(***************************************************************************)
(* One caller that calls checkSize(n) before every store and update, n     *)
(* being the length of the record the call then writes.                    *)
(***************************************************************************)
\* checkSize(StoreTlen(...)); store(oid, p, s, version, pv, sv)
CheckedStore(oid, p, s, version, pv, sv) ==
    LET size == StoreTlen(p, s, version, pv)
    IN  /\ IsOpen
        /\ written + size <= MaxBytes
        /\ size <= limit - 4
        /\ CheckedPos(size) + size <= MaxPos
        /\ current' = CheckedCurrent(size)
        /\ handle' = CheckedHandle(size)
        /\ disk' = StoreDisk(CheckedDisk(size), CheckedCurrent(size), CheckedPos(size),
                             oid, p, s, version, pv, sv)
        /\ index' = StoreIndex(index, CheckedCurrent(size), CheckedPos(size), oid)
        /\ pos' = CheckedPos(size) + size
        /\ rotated' = (rotated \/ CheckSizeFlips(pos, size))
        /\ written' = written + size
        /\ UNCHANGED << client, phase, snap >>
        /\ UNCHANGED aux

\* checkSize(size); update(oid, serial, version, data), where size is the
\* length of the record update writes after that checkSize
CheckedUpdate(oid, serial, version, data) ==
    \E size \in Sizes :
        LET a == UpdateArgs(index, CheckedDisk(size), oid, serial, version, data)
        IN  /\ size = StoreTlen(a[1], a[2], a[3], a[4])
            /\ CheckedStore(oid, a[1], a[2], a[3], a[4], a[5])

NextCaller ==
    \/ Open
    \/ \E p \in Datas, s \in Serials : CheckedStore(O1, p, s, <<>>, None, None)
    \/ \E p \in Datas : CheckedStore(O2, p, S2, <<>>, None, None)
    \/ \E p \in Datas : CheckedStore(O1, p, S1, V1, PV1, SV1)
    \/ \E oid \in OIDs, version \in {<<>>, V1} : CheckedUpdate(oid, S2, version, D1)
    \/ \E oid \in OIDs, version \in {<<>>, V1} : Invalidate(oid, version)
    \/ \E oid \in OIDs, version \in {<<>>, V1, V2} : Load(oid, version)
    \/ \E oid \in OIDs : ModifiedInVersion(oid)
    \/ \E size \in Sizes : CheckSize(size)
    \/ Close
    \/ Construct

SpecCaller == Init /\ [][NextCaller]_vars

(***************************************************************************)
(* The scanner on its own: read_index run twice on one file, each run with *)
(* an empty index and serial map.  The files are records as _store writes  *)
(* them, with statuses as invalidation should and does leave them, cut at  *)
(* every length, and with damaged length fields.  What truncate does       *)
(* beyond the end of a file is one behaviour of the platform for both runs.*)
(***************************************************************************)
Rec1 == EncodeRecord(O1, D1, S1, <<>>, None, None)
Rec2 == EncodeRecord(O2, D1, S2, V1, PV1, SV1)

\* file with the byte at offset at replaced by b
Poke(file, at, b) == FWrite(file, at, <<b>>)

\* file cut at every length that keeps the magic, and file itself
Prefixes(file) == { SubSeq(file, 1, k) : k \in Len(magic)..Len(file) }

WholeFiles ==
    { magic \o Rec1 \o Rec2,
      magic \o Rec2 \o Rec1,
      \* the status byte set to 'n' and to 'i'
      magic \o Poke(Rec2, 8, ChN) \o Rec1,
      magic \o Rec1 \o Poke(Rec1, 8, ChI),
      \* invalidate's write, 16 bytes into the record
      magic \o Poke(Rec1, InvalidateAt(0), ChI) \o Rec2,
      \* the last 8 bytes overwritten
      magic \o Rec1 \o SubSeq(Rec2, 1, Len(Rec2) - 8) \o Fill(255, 8) }

DamagedFiles ==
    { \* header tlen of the first record changed from 32
      magic \o Poke(Rec1, 12, 20) \o Rec2,
      magic \o Poke(Rec1, 12, 33) \o Rec2,
      \* both tlen fields of a record with a version one short
      magic \o Poke(Poke(Rec2, 12, 45), Len(Rec2) - 1, 45),
      \* vdlen of -256
      magic \o FWrite(Rec2, 29, <<255, 255, 255, 0>>),
      \* the trailing tlen replaced by the first 4 bytes of the oid
      magic \o Rec1 \o FWrite(Rec2, Len(Rec2) - 4, SubSeq(Rec2, 1, 4)) }

ScanFiles == (UNION { Prefixes(f) : f \in WholeFiles }) \cup DamagedFiles

InitScan ==
    /\ InitCache
    /\ lock = 0
    /\ pc = [t \in Threads |-> "idle"]
    /\ last = EmptyMap
    /\ \E f \in ScanFiles, c \in {0, 1}, g \in Grows :
           scan = [file |-> f, from |-> f, cur |-> c, grow |-> g, index |-> EmptyMap,
                   serial |-> EmptyMap, pos |-> 0, runs |-> 0, raised |-> FALSE]

\* read_index(index, serial, f, current) with index and serial empty
ScanRun ==
    LET r == read_index(EmptyMap, EmptyMap, scan.file, scan.cur)
    IN  /\ ~scan.raised
        /\ scan' = [file |-> IF r.raised THEN scan.file
                                 ELSE TruncatedAs(scan.file, r.pos, scan.grow),
                     from |-> scan.from, cur |-> scan.cur, grow |-> scan.grow,
                     index |-> r.index,
                     serial |-> r.serial, pos |-> r.pos, runs |-> scan.runs + 1,
                     raised |-> r.raised]
        /\ UNCHANGED << cache, lock, pc, last >>

\* the first run on the file
ScanFirst == scan.runs = 0 /\ ScanRun

\* a second run, on the file the first run left
ScanAgain == scan.runs = 1 /\ ScanRun

NextScan == ScanFirst \/ ScanAgain

SpecScan == InitScan /\ [][NextScan]_vars

(***************************************************************************)
(* Threads.  A call that takes the lock is two steps of its thread: it     *)
(* acquires the lock, then its body runs and the lock is released (try ... *)
(* finally).  close() takes no lock and is one step for each file of       *)
(* self._f.  verify() is open(), and then the callbacks on the items       *)
(* open() returned, after open() has released the lock.                    *)
(***************************************************************************)
Locked ==
    { "open", "load", "store", "update", "invalidate", "modifiedInVersion",
      "checkSize", "verify" }

\* self._acquire() of the call op, made when the caller may make it
Acquire(t, op) ==
    /\ pc[t] = "idle"
    /\ lock = 0
    /\ IF op \in {"open", "verify"} THEN phase \in {"new", "open"} ELSE IsOpen
    /\ op \in {"store", "update"} => Room(StoreTlen(D1, S1, V1, PV1))
    /\ lock' = t
    /\ pc' = [pc EXCEPT ![t] = op]
    /\ UNCHANGED << cache, scan, last >>

\* self._release() at the end of the call op, which leaves thread t at to
Release(t, op, to) ==
    /\ pc[t] = op
    /\ lock' = 0
    /\ pc' = [pc EXCEPT ![t] = to]
    /\ UNCHANGED << scan, last >>

TOpen(t) == open /\ Release(t, "open", "idle")

TLoad(t) == load(O1, <<>>) /\ Release(t, "load", "idle")

TStore(t) == store(O1, D1, S1, <<>>, None, None) /\ Release(t, "store", "idle")

TUpdate(t) == update(O1, S2, V1, D1) /\ Release(t, "update", "idle")

TInvalidate(t) == invalidate(O1, <<>>) /\ Release(t, "invalidate", "idle")

TModifiedInVersion(t) == modifiedInVersion(O1) /\ Release(t, "modifiedInVersion", "idle")

TCheckSize(t) == (\E size \in {32, limit} : checkSize(size)) /\ Release(t, "checkSize", "idle")

\* verify(verifyFunc): self.open()
TVerify(t) == open /\ Release(t, "verify", "verifying")

\* verify(verifyFunc): verifyFunc(oid, s, vs) for the items open() returned
TVerified(t) ==
    /\ pc[t] = "verifying"
    /\ pc' = [pc EXCEPT ![t] = "idle"]
    /\ UNCHANGED << cache, scan, lock, last >>

\* close(): the first file of self._f
TClose(t) ==
    /\ pc[t] = "idle"
    /\ phase \in {"new", "open"}
    /\ handle' = Closed(handle, {0})
    /\ phase' = "closed"
    /\ snap' = IF phase = "open" THEN [index |-> index, disk |-> disk] ELSE snap
    /\ pc' = [pc EXCEPT ![t] = "close"]
    /\ UNCHANGED << client, disk, index, pos, current, rotated, written, scan, lock,
                    last >>

\* close(): the second file of self._f
TClosed(t) ==
    /\ pc[t] = "close"
    /\ handle' = Closed(handle, {1})
    /\ pc' = [pc EXCEPT ![t] = "idle"]
    /\ UNCHANGED << client, disk, index, pos, current, phase, rotated, written, snap,
                    scan, lock, last >>

NextThreads ==
    \E t \in Threads :
        \/ \E op \in Locked : Acquire(t, op)
        \/ TOpen(t)
        \/ TLoad(t)
        \/ TStore(t)
        \/ TUpdate(t)
        \/ TInvalidate(t)
        \/ TModifiedInVersion(t)
        \/ TCheckSize(t)
        \/ TVerify(t)
        \/ TVerified(t)
        \/ TClose(t)
        \/ TClosed(t)

SpecThreads == Init /\ [][NextThreads]_vars

(***************************************************************************)
(* One caller of a persistent cache constructed on a file 0 that holds two *)
(* records, of O2 and then of O1, who after two flips stores data for O2   *)
(* that contains the bytes of O1, or the image of a whole record of O1,    *)
(* where the record of O1 began.                                           *)
(***************************************************************************)
\* the files the constructor finds
OldFiles ==
    [i \in {0, 1} |-> IF i = 0 THEN magic \o EncodeRecord(O2, D1, S2, <<>>, None, None) \o Rec1
                      ELSE <<>>]

\* where the record of O1 begins in file 0 of OldFiles
OldAt == 4 + Len(EncodeRecord(O2, D1, S2, <<>>, None, None))

\* data whose bytes at OldAt, once stored in the first record of a file, are
\* the oid O1 and then the end of the data
DOid == Fill(120, OldAt - 4 - 27) \o O1

\* data whose bytes at OldAt, once stored in the first record of a file, are
\* the header and the data of a record of O1 with data 'x' and serial SV1
DImage == Fill(120, OldAt - 4 - 27)
              \o SubSeq(EncodeRecord(O1, <<120>>, SV1, <<>>, None, None), 1, 28)

InitAlias ==
    /\ client = TRUE
    /\ disk = BootDisk(OldFiles)
    /\ handle = [i \in {0, 1} |-> IF BootHandles(OldFiles)[i] THEN "open" ELSE "none"]
    /\ current = BootCurrent(OldFiles)
    /\ index = EmptyMap
    /\ pos = 0
    /\ phase = "new"
    /\ rotated = FALSE
    /\ written = 0
    /\ snap = NoSnap
    /\ InitAux

NextAlias ==
    \/ Open
    \/ \E p \in {D1, DOid, DImage} : Store(O2, p, S2, <<>>, None, None)
    \/ \E oid \in OIDs : Update(oid, S2, V1, D1)
    \/ \E oid \in OIDs, version \in {<<>>, V1} : Invalidate(oid, version)
    \/ \E oid \in OIDs, version \in {<<>>, V1} : Load(oid, version)
    \/ \E oid \in OIDs : ModifiedInVersion(oid)
    \/ \E size \in {32, limit} : CheckSize(size)

SpecAlias == InitAlias /\ [][NextAlias]_vars

(***************************************************************************)
(* open() on two files of whole records: a persistent cache constructed on *)
(* files 0 and 1 that each hold up to two records, of O1 and O2, with and  *)
(* without a version, with status 'v', 'n' and 'i'.                        *)
(***************************************************************************)
\* a record of O1 with a version, and a record of O2 without one
RecV == EncodeRecord(O1, D1, S2, V1, PV1, SV1)
RecP == EncodeRecord(O2, D1, S2, <<>>, None, None)

\* the records the two files are made of
SegRecords == { Rec1, Poke(Rec1, 8, ChI), RecV, Poke(RecV, 8, ChN), RecP }

\* the files: the magic and up to two records
SegFiles ==
    {magic} \cup { magic \o r : r \in SegRecords }
            \cup { magic \o r \o q : r \in SegRecords, q \in SegRecords }

InitSegs ==
    /\ client = TRUE
    /\ \E f0 \in SegFiles, f1 \in SegFiles :
           LET files == [i \in {0, 1} |-> IF i = 0 THEN f0 ELSE f1]
           IN  /\ disk = BootDisk(files)
               /\ handle = [i \in {0, 1} |-> IF BootHandles(files)[i] THEN "open" ELSE "none"]
               /\ current = BootCurrent(files)
    /\ index = EmptyMap
    /\ pos = 0
    /\ phase = "new"
    /\ rotated = FALSE
    /\ written = 0
    /\ snap = NoSnap
    /\ InitAux

NextSegs ==
    \/ Open
    \/ \E oid \in OIDs, version \in {<<>>, V1} : Load(oid, version)

SpecSegs == InitSegs /\ [][NextSegs]_vars

(***************************************************************************)
(* The caller of SpecAlias, with the history of what was written: last     *)
(* holds for each oid the arguments of the last _store of a record of it,  *)
(* and no entry once the oid has been invalidated with an empty version.   *)
(***************************************************************************)
\* the arguments of the _store calls that wrote the records of OldFiles
OldLast ==
    With(With(EmptyMap, O2, << D1, S2, <<>>, None, None >>),
         O1, << D1, S1, <<>>, None, None >>)

InitFresh ==
    /\ client = TRUE
    /\ disk = BootDisk(OldFiles)
    /\ handle = [i \in {0, 1} |-> IF BootHandles(OldFiles)[i] THEN "open" ELSE "none"]
    /\ current = BootCurrent(OldFiles)
    /\ index = EmptyMap
    /\ pos = 0
    /\ phase = "new"
    /\ rotated = FALSE
    /\ written = 0
    /\ snap = NoSnap
    /\ scan = NoScan
    /\ lock = 0
    /\ pc = [t \in Threads |-> "idle"]
    /\ last = OldLast

\* store(oid, p, s, version, pv, sv), noted in last
StoreLast(oid, p, s, version, pv, sv) ==
    /\ IsOpen
    /\ store(oid, p, s, version, pv, sv)
    /\ last' = With(last, oid, << p, s, version, pv, sv >>)
    /\ UNCHANGED << scan, lock, pc >>

\* update(oid, serial, version, data), noted in last
UpdateLast(oid, serial, version, data) ==
    /\ IsOpen
    /\ update(oid, serial, version, data)
    /\ last' = IF version # <<>> /\ EntryClosed(index, handle, oid) THEN last
               ELSE With(last, oid, UpdateArgs(index, disk, oid, serial, version, data))
    /\ UNCHANGED << scan, lock, pc >>

\* invalidate(oid, version), noted in last when the version is empty
InvalidateLast(oid, version) ==
    /\ IsOpen
    /\ invalidate(oid, version)
    /\ last' = IF version = <<>> THEN Without(last, oid) ELSE last
    /\ UNCHANGED << scan, lock, pc >>

NextFresh ==
    \/ phase = "new" /\ Open
    \/ \E p \in {D1, DOid, DImage} : StoreLast(O2, p, S2, <<>>, None, None)
    \/ \E oid \in OIDs : UpdateLast(oid, S2, V1, D1)
    \/ \E oid \in OIDs, version \in {<<>>, V1} : InvalidateLast(oid, version)
    \/ \E oid \in OIDs, version \in {<<>>, V1} : Load(oid, version)
    \/ \E size \in {32, limit} : CheckSize(size)

SpecFresh == InitFresh /\ [][NextFresh]_vars

(***************************************************************************)
(* Two threads, each calling checkSize(n) and then store of a record of n  *)
(* bytes, again and again.  Each of the two calls takes the lock for       *)
(* itself; between them the thread is at "checked", holding nothing.       *)
(***************************************************************************)
\* what thread t stores
PairOid(t) == IF t = 1 THEN O1 ELSE O2
PairData(t) == IF t = 1 THEN D1 ELSE Fill(120, 4)

\* the length of the record thread t stores
PairSize(t) == StoreTlen(PairData(t), S1, <<>>, None)

\* self._acquire() of checkSize
PairAcquireCheck(t) == PairSize(t) <= limit - 4 /\ Acquire(t, "checkSize")

\* checkSize(n)
PairCheckSize(t) == checkSize(PairSize(t)) /\ Release(t, "checkSize", "checked")

\* self._acquire() of the store that follows
PairAcquireStore(t) ==
    /\ pc[t] = "checked"
    /\ lock = 0
    /\ Room(PairSize(t))
    /\ lock' = t
    /\ pc' = [pc EXCEPT ![t] = "store"]
    /\ UNCHANGED << cache, scan, last >>

\* store(oid, p, s, '', None, None)
PairStore(t) ==
    store(PairOid(t), PairData(t), S1, <<>>, None, None) /\ Release(t, "store", "idle")

NextPairs ==
    \E t \in Threads :
        \/ Acquire(t, "open")
        \/ TOpen(t)
        \/ PairAcquireCheck(t)
        \/ PairCheckSize(t)
        \/ PairAcquireStore(t)
        \/ PairStore(t)

SpecPairs == Init /\ [][NextPairs]_vars

(***************************************************************************)
(* Properties.                                                             *)
(***************************************************************************)
Versions == {<<>>, V1, V2}

\* the index entry of oid points to a record of that oid with status 'v' or 'n'
EntryValid(idx, dsk, oid) ==
    LET h == FRead(dsk[SegOf(idx[oid])], abs(idx[oid]), 9)
    IN  Len(h) = 9 /\ HOid(h) = oid /\ HStatus(h) \in {ChV, ChN}

\* C1 as stated: in every state after open(), rotations included, every oid
\* in the index maps to a record whose first 8 bytes are that oid and whose
\* status byte is 'v' or 'n'.
C1_IndexEntriesValid ==
    phase = "open" => \A oid \in DOMAIN index : EntryValid(index, disk, oid)

\* C1 amended: the same, in every state after open() in which no checkSize
\* has flipped the cache since that open().
C1_IndexEntriesValidUnrotated ==
    (phase = "open" /\ ~rotated) => \A oid \in DOMAIN index : EntryValid(index, disk, oid)

\* two stores have filled the index, no flip since open()
C1_Witness ==
    phase = "open" /\ ~rotated /\ DOMAIN index = OIDs

\* C2 as stated: store(oid, data, s, "", None, None) then load(oid, "")
\* returns (data, s), for every data.
C2_PlainRoundTrip ==
    [][\A oid \in OIDs, p \in Datas, s \in Serials :
          Store(oid, p, s, <<>>, None, None)
              => LoadRet(index', disk', oid, <<>>) = << p, s >>]_vars

\* C2 amended: store(oid, data, s, "", None, None) then load(oid, "") returns
\* (data, s) for every non-empty data, and None for empty data.
C2_PlainRoundTripNonEmpty ==
    [][\A oid \in OIDs, p \in Datas, s \in Serials :
          Store(oid, p, s, <<>>, None, None)
              => LoadRet(index', disk', oid, <<>>) = (IF p # <<>> THEN << p, s >> ELSE None)]_vars

\* a plain record of O1 with data is indexed and loads as stored
C2_Witness ==
    /\ phase = "open"
    /\ O1 \in DOMAIN index
    /\ HVlen(HeaderAt(index, disk, O1)) = 0
    /\ LoadRet(index, disk, O1, <<>>) = << D1, S2 >>

\* C3 as stated: after store(oid, d, s, V, dv, sv), load(oid, V) returns
\* (dv, sv), load(oid, "") returns (d, s), and load(oid, V') for another
\* version V' returns (d, s) if d is non-empty and None otherwise.
C3_VersionRoundTrip ==
    [][\A oid \in OIDs, p \in Datas, s \in Serials :
          Store(oid, p, s, V1, PV1, SV1)
              => /\ LoadRet(index', disk', oid, V1) = << PV1, SV1 >>
                 /\ LoadRet(index', disk', oid, <<>>) = << p, s >>
                 /\ LoadRet(index', disk', oid, V2) = (IF p # <<>> THEN << p, s >> ELSE None)]_vars

\* C3 amended: as stated, except that load(oid, "") returns (d, s) only if d
\* is non-empty, and None otherwise.
C3_VersionRoundTripNonEmpty ==
    [][\A oid \in OIDs, p \in Datas, s \in Serials :
          Store(oid, p, s, V1, PV1, SV1)
              => /\ LoadRet(index', disk', oid, V1) = << PV1, SV1 >>
                 /\ LoadRet(index', disk', oid, <<>>) = (IF p # <<>> THEN << p, s >> ELSE None)
                 /\ LoadRet(index', disk', oid, V2) = (IF p # <<>> THEN << p, s >> ELSE None)]_vars

\* a record of O1 with version V1 is indexed and loads as stored, both halves
C3_Witness ==
    /\ phase = "open"
    /\ O1 \in DOMAIN index
    /\ LoadRet(index, disk, O1, V1) = << PV1, SV1 >>
    /\ LoadRet(index, disk, O1, V2) = << D1, S1 >>

\* the status byte of the record at index value p
StatusAt(dsk, p) == FRead(dsk[SegOf(p)], abs(p) + 8, 1)

\* C4: for an oid in the index, after invalidate(oid, "") the oid is not in
\* the index, the status byte of the record the index pointed to is 'i', and
\* load(oid, v) returns None for every version v.
C4_InvalidateDrops ==
    [][\A oid \in OIDs :
          (oid \in DOMAIN index /\ Invalidate(oid, <<>>))
              => /\ oid \notin DOMAIN index'
                 /\ StatusAt(disk', index[oid]) = <<ChI>>
                 /\ \A v \in Versions : LoadRet(index', disk', oid, v) = None]_vars

\* C4, the part about what follows: an oid that left the index comes back
\* only by a store or update of that oid (or by a new scan in open()).
C4_AbsentUntilWritten ==
    [][\A oid \in OIDs :
          (oid \notin DOMAIN index /\ oid \in DOMAIN index')
              => \/ \E p \in Datas, s \in Serials, v \in {<<>>, V1} :
                        Store(oid, p, s, v, PV1, SV1) \/ Update(oid, s, v, p)
                 \/ Open]_vars

\* C5: for an oid whose index entry points to a valid record, after
\* invalidate(oid, V) with a version V the status byte is 'n', the index
\* entry is as before, load(oid, V) returns None and load(oid, "") returns
\* the record's non-version (data, serial) when that data is non-empty.
C5_InvalidateVersion ==
    [][\A oid \in OIDs :
          (/\ oid \in DOMAIN index
           /\ ~EntryBad(index, disk, oid)
           /\ Invalidate(oid, V1))
              => LET h == HeaderAt(index, disk, oid)
                 IN  /\ StatusAt(disk', index[oid]) = <<ChN>>
                     /\ oid \in DOMAIN index' /\ index'[oid] = index[oid]
                     /\ LoadRet(index', disk', oid, V1) = None
                     /\ HDlen(h) > 0 =>
                            LoadRet(index', disk', oid, <<>>)
                                = << FRead(disk[SegOf(index[oid])], abs(index[oid]) + 27,
                                           HDlen(h)), HSerial(h) >>]_vars

\* C6: a checkSize(n) with pos + n > limit flips the current file, leaves the
\* new current file holding the magic only with append position 4, leaves the
\* file that was current unchanged, and every oid indexed in that file loads
\* the same before and after.
C6_Rotation ==
    [][\A size \in Sizes :
          (CheckSize(size) /\ CheckSizeFlips(pos, size))
              => /\ current' = 1 - current
                 /\ disk'[current'] = magic
                 /\ pos' = 4
                 /\ disk'[current] = disk[current]
                 /\ handle'[current] = "open"
                 /\ \A oid \in DOMAIN index :
                        SegOf(index[oid]) = current =>
                            \A v \in Versions :
                                LoadRet(index', disk', oid, v) = LoadRet(index, disk, oid, v)]_vars

\* the cache has flipped to file 1, and O1, written to file 0 with version
\* V1, still loads from there
C6_Witness ==
    /\ phase = "open" /\ rotated /\ current = 1 /\ pos = 4 /\ disk[1] = magic
    /\ O1 \in DOMAIN index /\ index[O1] > 0
    /\ LoadRet(index, disk, O1, V1) = << PV1, SV1 >>

\* C7: for a caller that calls checkSize(n) before every store and update,
\* n being the length of the record then written and n <= limit - 4, the
\* append position and the length of each file never exceed the limit.
C7_FootprintBound ==
    phase \in {"open", "closed"}
        => pos <= limit /\ Len(disk[0]) <= limit /\ Len(disk[1]) <= limit

\* the caller has filled one file up to where the next record did not fit,
\* and has written that record to the other file
C7_Witness ==
    /\ phase = "open" /\ rotated
    /\ pos > 4 /\ Len(disk[1 - current]) > 4
    /\ Len(disk[1 - current]) + 31 > limit

\* C8: after close() and a new constructor and open() on the same files,
\* load(oid, v) returns for every oid and version what it returned just
\* before the close().
C8_RestartRecovery ==
    [][(phase = "new" /\ Open)
          => \A oid \in OIDs, v \in Versions :
                 LoadRet(index', disk', oid, v) = LoadRet(snap.index, snap.disk, oid, v)]_vars

\* the scanner's second run changes nothing
ScanSame ==
    /\ scan'.index = scan.index
    /\ scan'.serial = scan.serial
    /\ scan'.pos = scan.pos
    /\ Len(scan'.file) = Len(scan.file)

\* C9: read_index run on a file, and run again on the file it left, yields
\* the same index, the same serial map and the same append position, and the
\* second run does not change the length of the file.
C9_ScanIdempotent == [][ScanAgain => ScanSame]_vars

\* C9 on the files that are made of records as _store writes them, whatever
\* their status bytes, wherever they are cut
C9_ScanIdempotentWellFormed ==
    [][(ScanAgain /\ scan.from \notin DamagedFiles) => ScanSame]_vars

\* thread t is in a call, at a point where the call reads or writes the file
\* handles, the index, the append position or the current file
Touching(t) == pc[t] \notin {"idle", "verifying"}

\* every call holds the lock from start to end
MutexHeld == \A t \in Threads : pc[t] # "idle" => lock = t

\* no call touches the state of the cache while another call does
Exclusive == \A t, u \in Threads : (Touching(t) /\ Touching(u)) => t = u

\* C10: every public operation (open, close, verify, load, store, update,
\* invalidate, modifiedInVersion, checkSize) holds the mutex for its entire
\* duration, so no operation reads or writes the file handles, the index, the
\* append position or the current file while another operation is in progress.
C10_MutexExclusion == MutexHeld /\ Exclusive

\* C10, the second half alone
C10_Exclusive == Exclusive

\* C10 for the calls that take the lock: while their body runs they hold it,
\* and no two of them run at once
C10_LockedCallsExclusive ==
    /\ \A t \in Threads : pc[t] \in Locked => lock = t
    /\ \A t, u \in Threads : (pc[t] \in Locked /\ pc[u] \in Locked) => t = u

\* C11: the current file changes only in a checkSize(n) with pos + n > limit
\* (or in a new constructor); open (and so verify), load, store, update,
\* invalidate and modifiedInVersion never change it, and a checkSize(n) with
\* pos + n <= limit leaves the current file, the append position, the index
\* and both files unchanged.
C11_SelectorFrame ==
    [][/\ current' # current
            => \/ \E size \in Sizes : CheckSize(size) /\ CheckSizeFlips(pos, size)
               \/ Construct
       /\ \A size \in Sizes :
              (~CheckSizeFlips(pos, size) /\ CheckSize(size))
                  => UNCHANGED << current, pos, index, disk >>]_vars

\* a checkSize has flipped the cache to file 1, and a record written after
\* that lies in file 1
C11_Witness ==
    /\ phase = "open" /\ rotated /\ current = 1 /\ pos > 4
    /\ \E oid \in DOMAIN index : index[oid] < 0

\* the index entry of oid points to a well-formed 'v' or 'n' record with
\* non-empty non-version data
HasNonVersion(idx, dsk, oid) ==
    /\ oid \in DOMAIN idx
    /\ ~EntryBad(idx, dsk, oid)
    /\ HDlen(HeaderAt(idx, dsk, oid)) > 0

\* the non-version (data, serial) of the record the index entry of oid points to
NonVersionOf(idx, dsk, oid) ==
    LET h == HeaderAt(idx, dsk, oid)
    IN  << FRead(dsk[SegOf(idx[oid])], abs(idx[oid]) + 27, HDlen(h)), Slice(h, 19, 27) >>

\* C12: update(oid, serial, V, data) with a version V appends one record to
\* the current file and points index[oid] at it; if the entry of oid pointed
\* to a well-formed 'v' or 'n' record with non-empty non-version data
\* (d', s'), then load(oid, "") returns (d', s') and load(oid, V) returns
\* (data, serial); otherwise load(oid, "") returns None and load(oid, V)
\* returns (data, serial).  update(oid, serial, "", data) has the effect of
\* store(oid, data, serial, "", None, None).
C12_UpdateMerge ==
    [][\A oid \in OIDs :
          /\ Update(oid, S2, V1, D1)
                => /\ index'[oid] = (IF current = 1 THEN -pos ELSE pos)
                   /\ DOMAIN index' = DOMAIN index \cup {oid}
                   /\ SubSeq(disk'[current], 1, pos) = SubSeq(disk[current], 1, pos)
                   /\ Len(disk'[current]) = pos'
                   /\ HTlen(HeaderAt(index', disk', oid)) = pos' - pos
                   /\ disk'[1 - current] = disk[1 - current]
                   /\ LoadRet(index', disk', oid, V1) = << D1, S2 >>
                   /\ LoadRet(index', disk', oid, <<>>)
                          = (IF HasNonVersion(index, disk, oid)
                             THEN NonVersionOf(index, disk, oid) ELSE None)
          /\ Update(oid, S2, <<>>, D1)
                => /\ disk' = [disk EXCEPT ![current] =
                                   FWrite(@, pos, EncodeRecord(oid, D1, S2, <<>>, None, None))]
                   /\ index'[oid] = (IF current = 1 THEN -pos ELSE pos)
                   /\ DOMAIN index' = DOMAIN index \cup {oid}
                   /\ pos' = pos + 31 + Len(D1)
                   /\ LoadRet(index', disk', oid, <<>>) = << D1, S2 >>]_vars

\* update with version V1 has kept the non-version pair of a record that
\* store wrote: both halves load
C12_Witness ==
    /\ phase = "open"
    /\ O1 \in DOMAIN index
    /\ HVlen(HeaderAt(index, disk, O1)) = 1
    /\ LoadRet(index, disk, O1, V1) = << D1, S2 >>
    /\ LoadRet(index, disk, O1, <<>>) = << D1, S1 >>

\* the files of two whole records, as sequences of their records
RecordLists == { << Rec1, Rec2 >>, << Rec2, Rec1 >> }

\* the file of the records rs
FileOf(rs) == magic \o rs[1] \o rs[2]

\* the end of the last record of rs that lies whole within the first k bytes
LastWhole(rs, k) ==
    IF k >= 4 + Len(rs[1]) + Len(rs[2]) THEN 4 + Len(rs[1]) + Len(rs[2])
    ELSE IF k >= 4 + Len(rs[1]) THEN 4 + Len(rs[1])
    ELSE 4

\* the oids of the records of rs that lie whole within the first k bytes
WholeOids(rs, k) ==
    { SubSeq(rs[i], 1, 8) : i \in { j \in 1..2 : (j = 1 /\ k >= 4 + Len(rs[1]))
                                               \/ k >= 4 + Len(rs[1]) + Len(rs[2]) } }

\* after the scan of FileOf(rs) cut to k bytes: no entry for the cut record,
\* the file ends with the last whole record, and so does the position
TailDropped(rs, k) ==
    /\ DOMAIN scan.index = WholeOids(rs, k)
    /\ DOMAIN scan.serial = WholeOids(rs, k)
    /\ Len(scan.file) = LastWhole(rs, k)
    /\ scan.pos = LastWhole(rs, k)

\* C13: when a file ends in a record cut anywhere (in its header, its data,
\* its version section or its trailing tlen), the scanner stops at that
\* record: the index and the serial map have no entry for it, the file is
\* truncated to the end of the last whole record, and the position returned
\* is that length.
C13_TruncatedTail ==
    \A rs \in RecordLists : \A k \in 4..(4 + Len(rs[1]) + Len(rs[2])) :
        (scan.runs = 1 /\ scan.from = SubSeq(FileOf(rs), 1, k) /\ LastWhole(rs, k) # k)
            => TailDropped(rs, k)

\* C13 for a cut record that has a version, and for a record without one cut
\* within its 27-byte header
C13_TruncatedTailChecked ==
    \A rs \in RecordLists : \A k \in 4..(4 + Len(rs[1]) + Len(rs[2])) :
        (/\ scan.runs = 1 /\ scan.from = SubSeq(FileOf(rs), 1, k) /\ LastWhole(rs, k) # k
         /\ LET cut == IF k >= 4 + Len(rs[1]) THEN rs[2] ELSE rs[1]
            IN  cut = Rec2 \/ k - LastWhole(rs, k) < 27)
            => TailDropped(rs, k)

\* the record that begins at offset at of file, of t bytes, is laid out as a
\* record of t bytes: header tlen and trailing tlen are t, and t is
\* 31 + len(data), plus len(version) + 12 + len(vdata) with a version
RecordOfLength(file, at, t) ==
    LET h     == FRead(file, at, 27)
        vdlen == UnpackI(FRead(file, at + 27 + HDlen(h) + HVlen(h), 4))
    IN  /\ Len(h) = 27
        /\ HTlen(h) = t
        /\ FRead(file, at + t - 4, 4) = Slice(h, 9, 13)
        /\ t = 31 + HDlen(h)
                 + (IF HVlen(h) > 0 THEN HVlen(h) + 12 + vdlen ELSE 0)

\* C14: after open() the length of the current file is the append position;
\* a store or update writes one record of tlen bytes at the append position
\* (header tlen = trailing tlen = 31 + len(data), plus len(version) + 12 +
\* len(vdata) with a version) and advances the position by tlen; invalidate,
\* load and modifiedInVersion change neither the files' lengths nor the
\* position.
C14_LengthIsPosition ==
    [][/\ phase' = "open" => Len(disk'[current']) = pos'
       /\ (\E oid \in OIDs, p \in Datas, s \in Serials, v \in {<<>>, V1} :
               Store(oid, p, s, v, PV1, SV1) \/ Store(oid, p, s, v, None, None)
               \/ Update(oid, s, v, p))
             => /\ pos' > pos
                /\ current' = current
                /\ SubSeq(disk'[current], 1, pos) = SubSeq(disk[current], 1, pos)
                /\ Len(disk'[current]) = pos'
                /\ RecordOfLength(disk'[current], pos, pos' - pos)
       /\ (\E oid \in OIDs, v \in Versions :
               Invalidate(oid, v) \/ Load(oid, v) \/ ModifiedInVersion(oid))
             => /\ pos' = pos
                /\ \A i \in {0, 1} : Len(disk'[i]) = Len(disk[i])]_vars

\* the records of a file from offset at on, as far as their headers are
\* well-formed: where each begins, its oid and its status
RECURSIVE RecordsFrom(_, _)
RecordsFrom(file, at) ==
    LET h == FRead(file, at, 27)
    IN  IF ScanHeaderStops(h) THEN <<>>
        ELSE << [at |-> at, oid |-> HOid(h), status |-> HStatus(h)] >>
                 \o RecordsFrom(file, at + HTlen(h))

\* the file holds a record of oid with status 'v' or 'n'
HoldsLive(file, oid) ==
    \E k \in DOMAIN RecordsFrom(file, 4) :
        RecordsFrom(file, 4)[k].oid = oid /\ RecordsFrom(file, 4)[k].status \in {ChV, ChN}

\* the file's last record of oid has a status in statuses
LastIs(file, oid, statuses) ==
    LET rs == RecordsFrom(file, 4)
    IN  \E k \in DOMAIN rs :
            /\ rs[k].oid = oid /\ rs[k].status \in statuses
            /\ \A j \in DOMAIN rs : j > k => rs[j].oid # oid

\* where the file's last record of oid begins
LastAt(file, oid) ==
    LET rs == RecordsFrom(file, 4)
    IN  rs[CHOOSE k \in DOMAIN rs :
               rs[k].oid = oid /\ \A j \in DOMAIN rs : j > k => rs[j].oid # oid].at

\* the serial pair of the record at offset at: its serial, and its version
\* serial when it has status 'v' and a version, else None
SerialPairAt(file, at) ==
    LET h == FRead(file, at, 27)
    IN  << HSerial(h),
           IF HStatus(h) = ChV /\ HVlen(h) > 0
           THEN FRead(file, at + HTlen(h) - 12, 8) ELSE None >>

\* C15: open() scans the other file before the current one, so after it
\* (a) an oid with a 'v' or 'n' record in both files, whose last record in
\* the current file is one of them, is indexed at the offset of that record
\* with the sign of the current file, and the serial pair open() returns for
\* it is that record's; (b) an oid whose last record in the current file has
\* status 'i' is in neither the index nor the serial map, even when the other
\* file holds a 'v' or 'n' record of it.
C15_ScanPrecedence ==
    [][(phase = "new" /\ handle[1 - current] = "open" /\ Open)
          => \A oid \in OIDs :
                 /\ (/\ HoldsLive(disk[1 - current], oid)
                     /\ LastIs(disk[current], oid, {ChV, ChN}))
                       => /\ oid \in DOMAIN index'
                          /\ index'[oid] = (IF current = 1 THEN -LastAt(disk[current], oid)
                                            ELSE LastAt(disk[current], oid))
                          /\ OpenSerials[oid]
                                 = SerialPairAt(disk[current], LastAt(disk[current], oid))
                 /\ LastIs(disk[current], oid, {ChI})
                       => /\ oid \notin DOMAIN index'
                          /\ oid \notin DOMAIN OpenSerials]_vars

\* after open(): O1 has a 'v' or 'n' record in both files and is indexed in
\* file 1, the current one, while O2, whose record is in file 0 alone, is
\* indexed there
C15_Witness ==
    /\ phase = "open" /\ current = 1 /\ handle[0] = "open"
    /\ HoldsLive(disk[0], O1) /\ LastIs(disk[1], O1, {ChV, ChN})
    /\ O1 \in DOMAIN index /\ index[O1] = -LastAt(disk[1], O1)
    /\ O2 \in DOMAIN index /\ index[O2] > 0

\* after open(): O1 has a 'v' or 'n' record in the other file and its last
\* record in the current file has status 'i'
C15_WitnessInvalidated ==
    /\ phase = "open" /\ handle[1 - current] = "open"
    /\ HoldsLive(disk[1 - current], O1) /\ LastIs(disk[current], O1, {ChI})
    /\ O1 \notin DOMAIN index


\* the index entry of oid is dangling and the oid-mismatch check sees it:
\* a checkSize has flipped the cache, and the 8 bytes the entry points to are
\* not oid
Dangling(idx, dsk, oid) ==
    rotated /\ oid \in DOMAIN idx /\ ~InvalidateHits(idx, dsk, oid)

\* C16: after a flip has re-created a file, for every oid whose index entry
\* still points to an offset of the file as it was, the next load,
\* invalidate, update or modifiedInVersion of that oid finds by the oid
\* check that the entry is dangling and removes it from the index (update
\* replacing it by the offset of the record it writes): no dangling entry of
\* the oid survives the first access.
C16_LazyCleanup ==
    [][\A t \in Threads :
          (phase = "open" /\ Dangling(index, disk, O1))
              => /\ TLoad(t) => O1 \notin DOMAIN index'
                 /\ TModifiedInVersion(t) => O1 \notin DOMAIN index'
                 /\ TInvalidate(t) => O1 \notin DOMAIN index'
                 /\ TUpdate(t) => /\ index'[O1] = (IF current = 1 THEN -pos ELSE pos)
                                  /\ ~Dangling(index', disk', O1)]_vars

\* C16 without invalidate: load, update and modifiedInVersion remove or
\* replace the dangling entry
C16_LazyCleanupButInvalidate ==
    [][\A t \in Threads :
          (phase = "open" /\ Dangling(index, disk, O1))
              => /\ TLoad(t) => O1 \notin DOMAIN index'
                 /\ TModifiedInVersion(t) => O1 \notin DOMAIN index'
                 /\ TUpdate(t) => /\ index'[O1] = (IF current = 1 THEN -pos ELSE pos)
                                  /\ ~Dangling(index', disk', O1)]_vars

\* the record at offset at has status 'v' and a version, and passes every
\* test of the scanner before the one of its trailing 4 bytes
VersionChecked(file, at) ==
    LET h == FRead(file, at, 27)
    IN  /\ ~ScanHeaderStops(h)
        /\ ScanHasVersion(h)
        /\ Len(ScanVdlen(file, h, at)) = 4
        /\ HVlen(h) + HDlen(h) + 42 + UnpackI(ScanVdlen(file, h, at)) <= HTlen(h)
        /\ ScanVserialAt(file, h, at) >= 0

\* the 4 bytes that follow the version serial of the record at offset at
TrailerAt(file, at) ==
    LET h == FRead(file, at, 27)
    IN  FRead(file, ScanVserialAt(file, h, at) + Len(ScanVserial(file, h, at)), 4)

\* of the records the scanner came to that have status 'v' and a version, it
\* accepted those whose trailing 4 bytes are the bytes from..to-1 of their
\* header, and stopped at the first other
TrailerIs(from, to) ==
    scan.runs = 1 =>
        \A k \in DOMAIN RecordsFrom(scan.from, 4) :
            LET at == RecordsFrom(scan.from, 4)[k].at
            IN  (at <= scan.pos /\ VersionChecked(scan.from, at))
                    => (at < scan.pos
                           <=> TrailerAt(scan.from, at) = Slice(FRead(scan.from, at, 27), from, to))

\* C17 as stated: the scanner accepts a record with status 'v' and a version
\* only if the 4 bytes that follow its version serial are the first 4 bytes
\* of its header, the first half of the oid, and not its tlen; it stops at a
\* record with a version whose trailing 4 bytes are not those.
C17_TrailerIsOidHalf == TrailerIs(0, 4)

\* C17 amended: the scanner accepts a record with status 'v' and a version
\* only if the 4 bytes that follow its version serial are bytes 9 to 12 of
\* its header, the tlen; it stops at a record with a version whose trailing 4
\* bytes are not those.
C17_TrailerIsTlen == TrailerIs(9, 13)

\* the scanner has accepted a record with a version as _store writes it: its
\* trailing 4 bytes are its tlen and not the first half of its oid
C17_Witness ==
    /\ scan.runs = 1 /\ scan.from = magic \o Rec2 \o Rec1
    /\ TrailerAt(scan.from, 4) = PackI(Len(Rec2))
    /\ TrailerAt(scan.from, 4) # SubSeq(O2, 1, 4)
    /\ DOMAIN scan.index = OIDs

\* the scanner has stopped at a record with a version whose trailing 4 bytes
\* are the first half of its oid
C17_WitnessOidHalf ==
    /\ scan.runs = 1
    /\ scan.pos = 4 + Len(Rec1)
    /\ VersionChecked(scan.from, scan.pos)
    /\ TrailerAt(scan.from, scan.pos) = SubSeq(O2, 1, 4)
    /\ DOMAIN scan.index = {O1}

\* what load of oid may return: None, or the non-version pair or the
\* version pair of the last record written for oid, if it has not been
\* invalidated with an empty version since
FreshPairs(oid) ==
    {None} \cup (IF oid \in DOMAIN last
                 THEN { << last[oid][1], last[oid][2] >>, << last[oid][4], last[oid][5] >> }
                 ELSE {})

\* C18: within one session, after open() and any sequence of store, update,
\* invalidate and checkSize, load(oid, version) returns None or a (data,
\* serial) pair of the most recent record that store or update wrote for
\* that oid: never a pair from an older record of the oid, from a record of
\* another oid, from the inside of another record, or from a record
\* invalidated with an empty version.
C18_Freshness ==
    phase = "open" =>
        \A oid \in OIDs, v \in {<<>>, V1} :
            LoadRet(index, disk, oid, v) \in FreshPairs(oid) \cup {Raised}

\* C19: with two threads that each call checkSize(n) and then store a
\* record of n bytes (n <= limit - 4), again and again, the append position
\* never exceeds the limit, whatever the interleaving of their calls.
C19_PairsWithinLimit ==
    phase = "open" => pos <= limit

\* C20: for a persistent cache whose two files each hold at least one
\* record, after close() and a new constructor the current file is the one
\* that was current at the close() and the other file is kept, whatever the
\* serials passed to store and update were (equal in both files, zero in a
\* first record, or not increasing in the order written).
C20_ActiveSurvives ==
    [][(/\ Construct
        /\ RecordsFrom(disk[0], 4) # <<>>
        /\ RecordsFrom(disk[1], 4) # <<>>)
          => /\ current' = current
             /\ handle'[1 - current] = "open"]_vars

\* C20 when the first record of the file that was current has the greater
\* serial, seen through the 8 bytes at offset 22
C20_ActiveSurvivesGreater ==
    [][(/\ Construct
        /\ RecordsFrom(disk[0], 4) # <<>>
        /\ RecordsFrom(disk[1], 4) # <<>>
        /\ StrGreater(PeekSerial(disk[current]), PeekSerial(disk[1 - current]))
        /\ PeekKeeps(disk[1 - current]))
          => /\ current' = current
             /\ handle'[1 - current] = "open"]_vars

====
